---- MODULE Spec2Model ----
(***************************************************************************)
(* Model of the macrotrackr bot's daily progress tracking: the day window  *)
(* calculation (utils/helpers.py, app.py), the meal ledger operations      *)
(* (database/models.py, app.py) and the webhook message handling (app.py). *)
(*                                                                         *)
(* Time is a count of minutes since 2024-01-01T00:00 (naive wall clock, as *)
(* datetime.now() gives it); seconds and microseconds are not represented. *)
(* The table meal_calories is the set `ledger` of rows.                    *)
(***************************************************************************)
EXTENDS Integers, Sequences, FiniteSets, TLC

VARIABLES
    ledger,   \* rows of table meal_calories
    nextId,   \* next value of the SERIAL id sequence
    now,      \* the wall clock, in minutes
    last,     \* the last operation called: its arguments, outcome and the ledger before it
    input,    \* argument of the pure function under evaluation
    output,   \* its result
    calls     \* the calls in progress, where calls run concurrently

vars == <<ledger, nextId, now, last, input, output, calls>>

----------------------------------------------------------------------------
(* Bounds of the model *)

\* number of INSERTs a behaviour may execute
MaxEntries == 3
\* the same where the database may fail at any step
MaxEntriesFailing == 2
\* how many clock ticks a behaviour may take
MaxTicks == 2
\* days of instants the window calculation is evaluated on
WindowProbeDays == 2
\* number of calls that may run concurrently
MaxRequests == 3
\* number of webhook updates the bot handles at a time
MaxInFlight == 2

----------------------------------------------------------------------------
(* Calendar *)

MinutesPerHour == 60
HoursPerDay == 24
MinutesPerDay == HoursPerDay * MinutesPerHour

\* datetime(2024, 1, d, hh, mm) as minutes since 2024-01-01T00:00
DateTime(d, hh, mm) == ((d - 1) * HoursPerDay + hh) * MinutesPerHour + mm

\* datetime.hour
Hour(t) == (t \div MinutesPerHour) % HoursPerDay

\* datetime.minute
Minute(t) == t % MinutesPerHour

\* calendar day index (0 = 2024-01-01)
DayOf(t) == t \div MinutesPerDay

\* now.replace(hour=h) alone: the minutes of `now` are kept
ReplaceHour_keep_minutes(t, h) ==
    DayOf(t) * MinutesPerDay + h * MinutesPerHour + Minute(t)

\* now.replace(hour=h, minute=0, second=0, microsecond=0)
ReplaceHour(t, h) == DayOf(t) * MinutesPerDay + h * MinutesPerHour

\* timedelta(days=1)
OneDay == MinutesPerDay

----------------------------------------------------------------------------
(* Day window calculator *)

BOUNDARY_HOUR == 21
APP_BOUNDARY_HOUR == 5

\* The `<` of the branch replaced by `<=`.
daily_window_le(t, h) ==
    LET today_h == ReplaceHour(t, h)
    IN  IF Hour(t) <= h
        THEN <<today_h - OneDay, today_h>>
        ELSE <<today_h, today_h + OneDay>>

\* get_daily_window_timestamps with the clock reading t and the boundary hour h
daily_window(t, h) ==
    LET today_h == ReplaceHour(t, h)
    IN  IF Hour(t) < h
        THEN <<today_h - OneDay, today_h>>
        ELSE <<today_h, today_h + OneDay>>

\* the window with the boundary at midnight
get_daily_window_timestamps_midnight(t) == daily_window(t, 0)

\* utils/helpers.py: 9pm to 9pm
get_daily_window_timestamps(t) == daily_window(t, BOUNDARY_HOUR)

\* app.py: 5am to 5am
app_get_daily_window_timestamps(t) == daily_window(t, APP_BOUNDARY_HOUR)

----------------------------------------------------------------------------
(* Meal ledger: database/models.py, class MealCalorie *)

Users == {1, 2}

\* message['from'].get('first_name', 'Unknown')
UserName(u) == IF u = 1 THEN "Ann" ELSE "Bob"

\* Python's None
None == [none |-> TRUE]

\* the steps of an operation at which the database may fail
StoreFails == {"none", "connect", "execute", "commit", "close"}
ReadFails == {"none", "connect", "execute", "close"}

\* one row of meal_calories; id and created_at are assigned by the database
Row(id, u, name, c, a, t) ==
    [id |-> id, user_id |-> u, user_name |-> name, calories |-> c,
     meal_analysis |-> a, created_at |-> t]

\* what a call yields: the table afterwards, either a return value or an exception,
\* and what became of the connection the call opened
\* a return after conn.close()
Return(l, r) == [ledger |-> l, exc |-> FALSE, ret |-> r, conn |-> "closed"]

\* `if not conn: return`: get_db_connection returned None, nothing was opened
NotConnected(l, r) == [ledger |-> l, exc |-> FALSE, ret |-> r, conn |-> "none"]

\* a query or a commit raised: conn.close(), the statement after them, is not reached
Raise(l) == [ledger |-> l, exc |-> TRUE, ret |-> None, conn |-> "open"]

\* conn.close() itself raised
RaiseOnClose(l) == [ledger |-> l, exc |-> TRUE, ret |-> None, conn |-> "close raised"]

\* the except clause: log and return v; it does nothing to the connection
Caught(r, v) == [ledger |-> r.ledger, exc |-> FALSE, ret |-> v, conn |-> r.conn]

\* COALESCE(SUM(calories), 0) over a set of rows
RECURSIVE SumCalories(_)
SumCalories(rows) ==
    IF rows = {} THEN 0
    ELSE LET e == CHOOSE x \in rows : TRUE
         IN  e.calories + SumCalories(rows \ {e})

\* WHERE user_id = %s AND created_at > %s
RowsSince_gt(l, u, start) ==
    {e \in l : e.user_id = u /\ e.created_at > start}

\* WHERE user_id = %s AND created_at >= %s
RowsSince(l, u, start) ==
    {e \in l : e.user_id = u /\ e.created_at >= start}

\* WHERE user_id = %s
RowsOf(l, u) == {e \in l : e.user_id = u}

\* the rows ORDER BY created_at DESC LIMIT 1 may return: any row of u with the
\* greatest created_at (the order among equal timestamps is unspecified)
LatestRows(l, u) ==
    {e \in RowsOf(l, u) : \A f \in RowsOf(l, u) : f.created_at <= e.created_at}

\* MealCalorie.store, the try block
store_try(l, id, t, u, name, c, a, fail) ==
    IF fail = "connect" THEN NotConnected(l, FALSE)
    ELSE IF fail \in {"execute", "commit"} THEN Raise(l)
    ELSE LET l2 == l \cup {Row(id, u, name, c, a, t)}
         IN  IF fail = "close" THEN RaiseOnClose(l2) ELSE Return(l2, TRUE)

\* store without the except clause: the exception propagates
store_noexcept(l, id, t, u, name, c, a, fail) ==
    store_try(l, id, t, u, name, c, a, fail)

\* MealCalorie.store
store(l, id, t, u, name, c, a, fail) ==
    LET r == store_try(l, id, t, u, name, c, a, fail)
    IN  IF r.exc THEN Caught(r, FALSE) ELSE r

\* get_daily_total summing every row of the user, whatever its created_at
get_daily_total_try_all(l, start, u, fail) ==
    IF fail = "connect" THEN NotConnected(l, 0)
    ELSE IF fail = "execute" THEN Raise(l)
    ELSE IF fail = "close" THEN RaiseOnClose(l)
    ELSE Return(l, SumCalories(RowsOf(l, u)))

\* MealCalorie.get_daily_total, the try block after the window is computed
get_daily_total_try(l, start, u, fail) ==
    IF fail = "connect" THEN NotConnected(l, 0)
    ELSE IF fail = "execute" THEN Raise(l)
    ELSE IF fail = "close" THEN RaiseOnClose(l)
    ELSE Return(l, SumCalories(RowsSince(l, u, start)))

\* MealCalorie.get_daily_total after it read start_time from the clock
get_daily_total_since(l, start, u, fail) ==
    LET r == get_daily_total_try(l, start, u, fail)
    IN  IF r.exc THEN Caught(r, 0) ELSE r

\* MealCalorie.get_daily_total when nothing happens between its read of the clock,
\* at t, and its SELECT
get_daily_total(l, t, u, fail) ==
    get_daily_total_since(l, get_daily_window_timestamps(t)[1], u, fail)

\* reset_daily_total deleting with created_at > start
reset_daily_total_try_gt(l, start, u, fail) ==
    IF fail = "connect" THEN NotConnected(l, FALSE)
    ELSE IF fail \in {"execute", "commit"} THEN Raise(l)
    ELSE LET l2 == l \ RowsSince_gt(l, u, start)
         IN  IF fail = "close" THEN RaiseOnClose(l2) ELSE Return(l2, TRUE)

\* reset_daily_total deleting without the condition on user_id
reset_daily_total_try_every_user(l, start, u, fail) ==
    IF fail = "connect" THEN NotConnected(l, FALSE)
    ELSE IF fail \in {"execute", "commit"} THEN Raise(l)
    ELSE LET l2 == {e \in l : e.created_at < start}
         IN  IF fail = "close" THEN RaiseOnClose(l2) ELSE Return(l2, TRUE)

\* MealCalorie.reset_daily_total, the try block after the window is computed
reset_daily_total_try(l, start, u, fail) ==
    IF fail = "connect" THEN NotConnected(l, FALSE)
    ELSE IF fail \in {"execute", "commit"} THEN Raise(l)
    ELSE LET l2 == l \ RowsSince(l, u, start)
         IN  IF fail = "close" THEN RaiseOnClose(l2) ELSE Return(l2, TRUE)

\* MealCalorie.reset_daily_total
reset_daily_total(l, t, u, fail) ==
    LET r == reset_daily_total_try(l, get_daily_window_timestamps(t)[1], u, fail)
    IN  IF r.exc THEN Caught(r, FALSE) ELSE r

\* the dict meal_info built from the selected row
MealInfo(e) ==
    [calories |-> e.calories, meal_analysis |-> e.meal_analysis,
     created_at |-> e.created_at]

\* DELETE ... WHERE user_id = %s AND created_at = (SELECT created_at ... LIMIT 1):
\* every row of u whose created_at equals the greatest created_at of u
DeletedByLast(l, u) ==
    {e \in RowsOf(l, u) : \E f \in LatestRows(l, u) : e.created_at = f.created_at}

\* MealCalorie.delete_last_meal, the try block; `picked` is the row the first SELECT
\* returned (None when the user has no row)
delete_last_meal_try(l, u, picked, fail) ==
    IF fail = "connect" THEN NotConnected(l, <<FALSE, None>>)
    ELSE IF fail = "execute" THEN Raise(l)
    ELSE IF picked = None
         THEN IF fail = "close" THEN RaiseOnClose(l) ELSE Return(l, <<FALSE, None>>)
    ELSE IF fail = "commit" THEN Raise(l)
    ELSE LET gone == DeletedByLast(l, u)
             l2 == l \ gone
         IN  IF fail = "close" THEN RaiseOnClose(l2)
             ELSE IF Cardinality(gone) > 0
                  THEN Return(l2, <<TRUE, MealInfo(picked)>>)
                  ELSE Return(l2, <<FALSE, None>>)

\* delete_last_meal without the except clause: the exception propagates
delete_last_meal_noexcept(l, u, picked, fail) ==
    delete_last_meal_try(l, u, picked, fail)

\* MealCalorie.delete_last_meal
delete_last_meal(l, u, picked, fail) ==
    LET r == delete_last_meal_try(l, u, picked, fail)
    IN  IF r.exc THEN Caught(r, <<FALSE, None>>) ELSE r

\* the rows the first SELECT of delete_last_meal may return
Pickable(l, u) == IF RowsOf(l, u) = {} THEN {None} ELSE LatestRows(l, u)

----------------------------------------------------------------------------
(* The ledger as a state machine: the operations called in any order, by any
   user, while the clock advances *)

\* (calories, meal_analysis) pairs the callers store; the analysis is a key of a text
Meals == {<<300, 1>>, <<150, 2>>}

\* the clock starts half an hour before the 9pm boundary and moves in half hours;
\* calls made between two ticks read the same clock value
StartNow == DateTime(15, 20, 30)
TickMinutes == MinutesPerHour \div 2

NoCall == [op |-> "none"]

\* the concurrent requests, and the state of a request that has not called anything
Requests == 1..MaxRequests
Idle == [op |-> "none", pc |-> "idle"]
NoCalls == [r \in Requests |-> Idle]

\* request r is the first that is not in progress
MayStart(r) ==
    /\ calls[r].pc = "idle"
    /\ \A q \in Requests : q < r => calls[q].pc # "idle"

\* the rows deleted by the other requests' transactions that have not committed:
\* each is locked by the transaction that deleted it
LockedByOthers(r) ==
    UNION {calls[q].deleted : q \in {q \in Requests : q # r /\ calls[q].pc = "deleted"}}

\* conn.commit() of a transaction that deleted `rows`
commit_delete(l, rows) == l \ rows

Call(op, u, fail, r, before, t) ==
    [op |-> op, user_id |-> u, fail |-> fail, exc |-> r.exc, ret |-> r.ret,
     before |-> before, at |-> t, conn |-> r.conn]

Init ==
    /\ ledger = {}
    /\ nextId = 1
    /\ now = StartNow
    /\ last = NoCall
    /\ input = None
    /\ output = None
    /\ calls = NoCalls

Store(u, meal, fail) ==
    /\ LET r == store(ledger, nextId, now, u, UserName(u), meal[1], meal[2], fail)
       IN  /\ ledger' = r.ledger
           /\ last' = Call("store", u, fail, r, ledger, now) @@ [calories |-> meal[1]]
    /\ nextId' = IF fail \in {"connect", "execute"} THEN nextId ELSE nextId + 1
    /\ UNCHANGED <<now, input, output, calls>>

GetDailyTotal(u, fail) ==
    /\ LET r == get_daily_total(ledger, now, u, fail)
       IN  /\ ledger' = r.ledger
           /\ last' = Call("get_daily_total", u, fail, r, ledger, now)
    /\ UNCHANGED <<nextId, now, input, output, calls>>

ResetDailyTotal(u, fail) ==
    /\ LET r == reset_daily_total(ledger, now, u, fail)
       IN  /\ ledger' = r.ledger
           /\ last' = Call("reset_daily_total", u, fail, r, ledger, now)
    /\ UNCHANGED <<nextId, now, input, output, calls>>

DeleteLastMeal(u, fail) ==
    /\ \E picked \in Pickable(ledger, u) :
          LET r == delete_last_meal(ledger, u, picked, fail)
          IN  /\ ledger' = r.ledger
              /\ last' = Call("delete_last_meal", u, fail, r, ledger, now)
    /\ UNCHANGED <<nextId, now, input, output, calls>>

Tick ==
    /\ now < StartNow + MaxTicks * TickMinutes
    /\ now' = now + TickMinutes
    /\ last' = NoCall
    /\ UNCHANGED <<ledger, nextId, input, output, calls>>

\* the database works
Next ==
    \/ \E u \in Users, meal \in Meals : nextId <= MaxEntries /\ Store(u, meal, "none")
    \/ \E u \in Users : GetDailyTotal(u, "none")
    \/ \E u \in Users : ResetDailyTotal(u, "none")
    \/ \E u \in Users : DeleteLastMeal(u, "none")
    \/ Tick

Spec == Init /\ [][Next]_vars

\* the database may fail at any step of any call
NextFailing ==
    \/ \E u \in Users, meal \in Meals, fail \in StoreFails :
            nextId <= MaxEntriesFailing /\ Store(u, meal, fail)
    \/ \E u \in Users, fail \in ReadFails : GetDailyTotal(u, fail)
    \/ \E u \in Users, fail \in StoreFails : ResetDailyTotal(u, fail)
    \/ \E u \in Users, fail \in StoreFails : DeleteLastMeal(u, fail)
    \/ Tick

SpecFailing == Init /\ [][NextFailing]_vars

----------------------------------------------------------------------------
(* What the ledger claims are stated with: the window start and the sum of a set
   of rows, each defined on its own and not through the operators above *)

\* the latest instant at or before t that is 21:00:00 of some day
WindowStartOf(t) ==
    CHOOSE s \in (t - MinutesPerDay + 1)..t : s % MinutesPerDay = 21 * MinutesPerHour

\* the rows of user u created in the window that contains t
InWindow(l, u, t) == {e \in l : e.user_id = u /\ e.created_at >= WindowStartOf(t)}

\* the sum of the calories of rows, adding the rows up by id
RECURSIVE TotalUpTo(_, _)
TotalUpTo(rows, n) ==
    IF n = 0 THEN 0
    ELSE (IF \E e \in rows : e.id = n
          THEN (CHOOSE e \in rows : e.id = n).calories
          ELSE 0) + TotalUpTo(rows, n - 1)

Total(rows) == TotalUpTo(rows, nextId - 1)

\* the last call was operation op and the database did not fail during it
Succeeded(op) == last.op = op /\ last.fail = "none"

\* the row of u stored last: the one with the greatest id
NewestOf(l, u) == CHOOSE e \in RowsOf(l, u) : \A f \in RowsOf(l, u) : f.id <= e.id

----------------------------------------------------------------------------
(* Claims about the ledger (specification Spec) *)

\* C1: dailyTotal(u) evaluated at `now` is the sum of the calories of exactly the
\* rows of u with created_at >= the start of the window containing `now` (0 when
\* there are none); two rows of 300 and 150 in the window give 450.
C1_DailyTotalIsWindowSum ==
    Succeeded("get_daily_total") =>
        /\ ~last.exc
        /\ ledger = last.before
        /\ last.ret = Total(InWindow(ledger, last.user_id, now))
        /\ (InWindow(ledger, last.user_id, now) = {} => last.ret = 0)
        /\ (\E a, b \in InWindow(ledger, last.user_id, now) :
                /\ a.calories = 300 /\ b.calories = 150
                /\ InWindow(ledger, last.user_id, now) = {a, b})
           => last.ret = 450

\* a total of 450 is returned while the user also has a row older than the window
C1_Witness ==
    /\ Succeeded("get_daily_total")
    /\ last.ret = 450
    /\ \E e \in ledger : e.user_id = last.user_id /\ e.created_at < WindowStartOf(now)

\* C2: resetWindow(u) removes every row of u with created_at >= the window start,
\* so dailyTotal(u) right afterwards is 0; on a window with no row of u it still
\* returns true and changes nothing.
C2_ResetEmptiesWindow ==
    Succeeded("reset_daily_total") =>
        /\ ~last.exc
        /\ last.ret = TRUE
        /\ InWindow(ledger, last.user_id, now) = {}
        /\ get_daily_total(ledger, now, last.user_id, "none").ret = 0
        /\ (InWindow(last.before, last.user_id, now) = {} => ledger = last.before)

\* a reset removed a row created exactly at the window start
C2_Witness ==
    /\ Succeeded("reset_daily_total")
    /\ \E e \in last.before \ ledger : e.created_at = WindowStartOf(now)

\* a reset was called on a window that held no row of the user, others' rows present
C2_WitnessIdempotent ==
    /\ Succeeded("reset_daily_total")
    /\ InWindow(last.before, last.user_id, now) = {}
    /\ last.before # {}

\* C3: a successful deleteLast(u) removes exactly one row, the row of u with the
\* greatest created_at of u's whole history; every other row is unchanged.
C3_DeleteLastRemovesExactlyOne ==
    (last.op = "delete_last_meal" /\ last.ret[1] = TRUE) =>
        \E e \in RowsOf(last.before, last.user_id) :
            /\ \A f \in RowsOf(last.before, last.user_id) : f.created_at <= e.created_at
            /\ ledger = last.before \ {e}
            /\ Cardinality(RowsOf(ledger, last.user_id))
                 = Cardinality(RowsOf(last.before, last.user_id)) - 1

\* C4: when several rows of u share the greatest created_at, deleteLast(u) deletes
\* the one with the highest id only, and the snapshot returned is of that row.
C4_DeleteLastBreaksTiesById ==
    (last.op = "delete_last_meal" /\ last.ret[1] = TRUE
        /\ Cardinality(LatestRows(last.before, last.user_id)) >= 2) =>
        /\ ledger = last.before \ {NewestOf(last.before, last.user_id)}
        /\ last.ret[2] = MealInfo(NewestOf(last.before, last.user_id))

\* C5: if u has a row, deleteLast(u) returns (true, snapshot) with the calories of
\* the row of u stored last; when that row is in the current window, dailyTotal(u)
\* afterwards is dailyTotal(u) before minus snapshot.calories.
C5_DeleteLastReturnsNewest ==
    (Succeeded("delete_last_meal") /\ RowsOf(last.before, last.user_id) # {}) =>
        /\ last.ret[1] = TRUE
        /\ last.ret[2].calories = NewestOf(last.before, last.user_id).calories
        /\ (NewestOf(last.before, last.user_id) \in InWindow(last.before, last.user_id, now)
            => get_daily_total(ledger, now, last.user_id, "none").ret
                 = get_daily_total(last.before, now, last.user_id, "none").ret
                     - last.ret[2].calories)

\* C6: deleteLast(u) for a user with no row returns (false, null) and leaves the
\* whole ledger unchanged, whether or not the database fails.
C6_DeleteLastOfNothing ==
    (last.op = "delete_last_meal" /\ RowsOf(last.before, last.user_id) = {}) =>
        /\ ~last.exc
        /\ last.ret = <<FALSE, None>>
        /\ ledger = last.before

\* deleteLast was called for a user with no row while another user has rows
C6_Witness ==
    /\ Succeeded("delete_last_meal")
    /\ RowsOf(last.before, last.user_id) = {}
    /\ last.before # {}
    /\ last.ret = <<FALSE, None>>

\* C10: when the database fails at any step, no ledger operation raises: store
\* returns false, dailyTotal 0, resetWindow false and deleteLast (false, null).
C10_FailuresAreReturned ==
    (last.op # "none" /\ last.fail # "none") =>
        /\ ~last.exc
        /\ (last.op = "store" => last.ret = FALSE)
        /\ (last.op = "get_daily_total" => last.ret = 0)
        /\ (last.op = "reset_daily_total" => last.ret = FALSE)
        /\ (last.op = "delete_last_meal" => last.ret = <<FALSE, None>>)

\* a query raised during dailyTotal for a user whose window holds rows
C10_Witness ==
    /\ last.op = "get_daily_total"
    /\ last.fail = "execute"
    /\ InWindow(ledger, last.user_id, now) # {}
    /\ last.ret = 0

\* C11: a store that returns false leaves the ledger exactly as it was, whichever
\* step (connect, insert, commit, close) failed; a store that returns true has added
\* exactly one row, of the user and with the calories given.
C11_StoreIsAllOrNothing ==
    last.op = "store" =>
        /\ (last.ret = FALSE => ledger = last.before)
        /\ (last.ret = TRUE =>
               \E e \in ledger \ last.before :
                   /\ ledger = last.before \cup {e}
                   /\ e.user_id = last.user_id
                   /\ e.calories = last.calories)

\* C18: resetWindow(u) leaves unchanged every row of any other user and every row of
\* u created before the start of the current window; only rows of u with
\* created_at >= the window start are removed.
C18_ResetKeepsTheRest ==
    Succeeded("reset_daily_total") =>
        /\ ledger \subseteq last.before
        /\ \A e \in last.before :
              e \in ledger <=>
                  (e.user_id # last.user_id \/ e.created_at < WindowStartOf(now))

\* a reset removed a row of the user and kept an older row of the same user and a
\* row of another user created in the current window
C18_Witness ==
    /\ Succeeded("reset_daily_total")
    /\ ledger # last.before
    /\ \E e \in ledger : e.user_id = last.user_id /\ e.created_at < WindowStartOf(now)
    /\ \E e \in ledger : e.user_id # last.user_id /\ e.created_at >= WindowStartOf(now)

\* the operations of the ledger
LedgerOperations == {"store", "get_daily_total", "reset_daily_total", "delete_last_meal"}

\* C24: every connection opened by a ledger operation has been closed when the
\* operation returns, on the success path, the empty-result path and every failure
\* path: after a call no connection opened by it is left open.
C24_ConnectionsAreClosed ==
    last.op \in LedgerOperations => last.conn \in {"none", "closed"}

\* the first boundary instant after the start: 9pm of the same day
RolloverInstant == DateTime(15, 21, 0)

\* every row of u in table l was created before the rollover
AllBeforeRollover(l, u) == \A e \in RowsOf(l, u) : e.created_at < RolloverInstant

\* what C23 says of a state: before the rollover all rows stored count; from the
\* rollover on, rows created before it are not counted, remain in the ledger and
\* are what deleteLast removes and reports
RolledOver ==
    /\ (Succeeded("get_daily_total") /\ now < RolloverInstant) =>
           last.ret = Total(RowsOf(ledger, last.user_id))
    /\ (Succeeded("get_daily_total") /\ now >= RolloverInstant
            /\ AllBeforeRollover(ledger, last.user_id)) =>
           /\ last.ret = 0
           /\ ledger = last.before
    /\ (Succeeded("delete_last_meal") /\ now >= RolloverInstant
            /\ RowsOf(last.before, last.user_id) # {}
            /\ AllBeforeRollover(last.before, last.user_id)) =>
           /\ last.ret[1] = TRUE
           /\ last.ret[2].created_at < RolloverInstant
           /\ ledger # last.before
           /\ last.before \ ledger \subseteq RowsOf(last.before, last.user_id)

\* C23: an entry counted by dailyTotal(u) in one window stops being counted as soon
\* as now reaches the next boundary instant, without any deletion: the clock
\* advancing changes no row, dailyTotal(u) is 0 from that instant on when nothing
\* new is stored, and the older rows are still there and the target of deleteLast(u).
C23_DayRollover ==
    [][(now' # now => ledger' = ledger) /\ RolledOver']_vars

\* exactly at the boundary instant dailyTotal returned 0 for a user whose rows of the
\* previous window are all still in the ledger
C23_Witness ==
    /\ Succeeded("get_daily_total")
    /\ now = RolloverInstant
    /\ last.ret = 0
    /\ Cardinality(RowsOf(ledger, last.user_id)) >= 2
    /\ AllBeforeRollover(ledger, last.user_id)

----------------------------------------------------------------------------
(* The day window calculator evaluated on its own (specification SpecWindow):
   every minute of WindowProbeDays days from 2024-01-14T00:00, every boundary hour *)

ProbeStart == DateTime(14, 0, 0)

InitWindow ==
    /\ ledger = {}
    /\ nextId = 1
    /\ now = ProbeStart
    /\ last = NoCall
    /\ input \in [now : ProbeStart..(ProbeStart + WindowProbeDays * MinutesPerDay - 1),
                  h : 0..(HoursPerDay - 1)]
    /\ output = None
    /\ calls = NoCalls

ComputeWindow ==
    /\ output = None
    /\ output' = daily_window(input.now, input.h)
    /\ UNCHANGED <<ledger, nextId, now, last, input, calls>>

NextWindow == ComputeWindow

SpecWindow == InitWindow /\ [][NextWindow]_vars

\* C7: for every instant and every boundary hour h in 0..23 the window (start, end)
\* satisfies start <= now < end and end - start = 24 hours.
C7_WindowContainsNow ==
    output # None =>
        /\ output[1] <= input.now
        /\ input.now < output[2]
        /\ output[2] - output[1] = 24 * 60

\* the window was computed for 9:30pm with the boundary at 9pm
C7_Witness ==
    /\ output # None
    /\ input = [now |-> DateTime(15, 21, 30), h |-> 21]
    /\ output = <<DateTime(15, 21, 0), DateTime(16, 21, 0)>>

\* C8: the window starts at h:00 of the previous calendar day when now's hour is
\* below h and at h:00 of the current day otherwise, an instant exactly at h:00
\* starting the new window; with h = 21, 2024-01-15T20:00 gives
\* [01-14T21:00, 01-15T21:00) and 2024-01-15T22:00 gives [01-15T21:00, 01-16T21:00).
C8_WindowStartIsBoundary ==
    output # None =>
        /\ \E d \in 0..31, hh \in 0..23, mm \in 0..59 :
              /\ input.now = (d * 24 + hh) * 60 + mm
              /\ output[1] = ((IF hh < input.h THEN d - 1 ELSE d) * 24 + input.h) * 60
              /\ (hh = input.h /\ mm = 0 => output[1] = input.now)
        /\ (input = [now |-> DateTime(15, 20, 0), h |-> 21]
              => output = <<DateTime(14, 21, 0), DateTime(15, 21, 0)>>)
        /\ (input = [now |-> DateTime(15, 22, 0), h |-> 21]
              => output = <<DateTime(15, 21, 0), DateTime(16, 21, 0)>>)

\* the window was computed for an instant exactly at the boundary, 9pm
C8_Witness ==
    /\ output # None
    /\ input = [now |-> DateTime(15, 21, 0), h |-> 21]
    /\ output[1] = DateTime(15, 21, 0)

----------------------------------------------------------------------------
(* Calorie extractor: utils/helpers.py, extract_total_calories.
   A text is a sequence of characters, each a one-character string.  The six
   regular expressions are sequences of atoms, matched as Python's re.search
   matches them: leftmost start, then by backtracking with greedy \s* and \d+
   (longest first), optional :? (present first) and lazy .*? (shortest first,
   never across a newline), letters compared case-insensitively. *)

MAX_CALORIE_VALUE == 3000
MIN_CALORIE_VALUE == 0

UpperCase == <<"A", "B", "C", "D", "E", "F", "G", "H", "I", "J", "K", "L", "M",
               "N", "O", "P", "Q", "R", "S", "T", "U", "V", "W", "X", "Y", "Z">>
LowerCase == <<"a", "b", "c", "d", "e", "f", "g", "h", "i", "j", "k", "l", "m",
               "n", "o", "p", "q", "r", "s", "t", "u", "v", "w", "x", "y", "z">>

\* re.IGNORECASE: letters are compared in lower case
Lower(c) ==
    IF \E i \in 1..26 : UpperCase[i] = c
    THEN LowerCase[CHOOSE i \in 1..26 : UpperCase[i] = c]
    ELSE c

DigitChars == <<"0", "1", "2", "3", "4", "5", "6", "7", "8", "9">>

\* \d
IsDigit(c) == \E i \in 1..10 : DigitChars[i] = c

DigitValue(c) == (CHOOSE i \in 1..10 : DigitChars[i] = c) - 1

\* the ASCII control characters that cannot be written in a string, by code point:
\* vertical tab and the four information separators
VT == "U+000B"
FS == "U+001C"
GS == "U+001D"
RS == "U+001E"
US == "U+001F"

\* \s of a str pattern, and what str.strip() removes, among the ASCII characters
IsSpace(c) == c \in {" ", "\t", "\n", "\r", "\f", VT, FS, GS, RS, US}

\* int(match.group(1)) of the digits s[a..b]
RECURSIVE ToInt(_, _, _)
ToInt(s, a, b) ==
    IF b < a THEN 0 ELSE ToInt(s, a, b - 1) * 10 + DigitValue(s[b])

\* atoms of the patterns
Lit(c) == [k |-> "lit", c |-> c]
Opt(c) == [k |-> "opt", c |-> c]
Spaces == [k |-> "spaces", c |-> ""]
Digits == [k |-> "digits", c |-> ""]
Group == [k |-> "group", c |-> ""]
Lazy == [k |-> "lazy", c |-> ""]

Word(chars) == [i \in 1..Len(chars) |-> Lit(chars[i])]

TotalWord == Word(<<"t", "o", "t", "a", "l">>)
KcalWord == Word(<<"k", "c", "a", "l">>)

\* P\s*\d+g, C\s*\d+g, F\s*\d+g
Macro(c) == <<Lit(c), Spaces, Digits, Lit("g")>>

\* the pattern with macros moved to the front of the list
Patterns_macro_first == <<
    <<Group, Spaces>> \o KcalWord \o <<Lazy>> \o Macro("p") \o <<Lazy>> \o Macro("c")
        \o <<Lazy>> \o Macro("f"),
    <<Lit("*")>> \o TotalWord \o <<Lit("*"), Opt(":"), Spaces, Group, Spaces>> \o KcalWord,
    TotalWord \o <<Opt(":"), Spaces, Group, Spaces>> \o KcalWord,
    TotalWord \o <<Lazy, Group, Spaces>> \o KcalWord,
    <<Group, Spaces>> \o KcalWord \o <<Lazy>> \o TotalWord,
    TotalWord \o <<Lazy, Group, Spaces>> \o KcalWord
    >>

Patterns == <<
    \* \*Total\*:?\s*(\d+)\s*kcal
    <<Lit("*")>> \o TotalWord \o <<Lit("*"), Opt(":"), Spaces, Group, Spaces>> \o KcalWord,
    \* Total:?\s*(\d+)\s*kcal
    TotalWord \o <<Opt(":"), Spaces, Group, Spaces>> \o KcalWord,
    \* Total.*?(\d+)\s*kcal
    TotalWord \o <<Lazy, Group, Spaces>> \o KcalWord,
    \* (\d+)\s*kcal.*?total
    <<Group, Spaces>> \o KcalWord \o <<Lazy>> \o TotalWord,
    \* total.*?(\d+)\s*kcal
    TotalWord \o <<Lazy, Group, Spaces>> \o KcalWord,
    \* (\d+)\s*kcal.*?P\s*\d+g.*?C\s*\d+g.*?F\s*\d+g
    <<Group, Spaces>> \o KcalWord \o <<Lazy>> \o Macro("p") \o <<Lazy>> \o Macro("c")
        \o <<Lazy>> \o Macro("f")
    >>

NoMatch == [ok |-> FALSE, group |-> <<>>]
Matched(g) == [ok |-> TRUE, group |-> g]

\* the first of two alternatives that matches
OrElse(first, second) == IF first.ok THEN first ELSE second

\* Match atoms i.. of pat against s from position pos; n characters are already
\* taken by atom i, g is the span <<first, last>> of group 1 so far.
RECURSIVE MatchFrom(_, _, _, _, _, _)
MatchFrom(pat, s, i, pos, n, g) ==
    IF i > Len(pat) THEN Matched(g)
    ELSE
    LET atom == pat[i]
        here == pos <= Len(s)
        next == MatchFrom(pat, s, i + 1, pos, 0, g)
    IN  CASE atom.k = "lit" ->
                IF here /\ Lower(s[pos]) = atom.c
                THEN MatchFrom(pat, s, i + 1, pos + 1, 0, g)
                ELSE NoMatch
          [] atom.k = "opt" ->
                OrElse(IF here /\ Lower(s[pos]) = atom.c
                       THEN MatchFrom(pat, s, i + 1, pos + 1, 0, g)
                       ELSE NoMatch,
                       next)
          [] atom.k = "spaces" ->
                OrElse(IF here /\ IsSpace(s[pos])
                       THEN MatchFrom(pat, s, i, pos + 1, n + 1, g)
                       ELSE NoMatch,
                       next)
          [] atom.k = "digits" ->
                OrElse(IF here /\ IsDigit(s[pos])
                       THEN MatchFrom(pat, s, i, pos + 1, n + 1, g)
                       ELSE NoMatch,
                       IF n >= 1 THEN next ELSE NoMatch)
          [] atom.k = "group" ->
                OrElse(IF here /\ IsDigit(s[pos])
                       THEN MatchFrom(pat, s, i, pos + 1, n + 1,
                                      IF n = 0 THEN <<pos, pos>> ELSE <<g[1], pos>>)
                       ELSE NoMatch,
                       IF n >= 1 THEN next ELSE NoMatch)
          [] atom.k = "lazy" ->
                OrElse(next,
                       IF here /\ s[pos] # "\n"
                       THEN MatchFrom(pat, s, i, pos + 1, n + 1, g)
                       ELSE NoMatch)

\* re.search(pattern, text, re.IGNORECASE): the match at the leftmost start
SearchFrom(pat, s, start) ==
    LET starts == {st \in start..(Len(s) + 1) : MatchFrom(pat, s, 1, st, 0, <<>>).ok}
    IN  IF starts = {} THEN NoMatch
        ELSE MatchFrom(pat, s, 1, CHOOSE st \in starts : \A o \in starts : st <= o, 0, <<>>)

Search(pat, s) == SearchFrom(pat, s, 1)

\* the loop of extract_total_calories without the sanity check on the value
RECURSIVE extract_from_unchecked(_, _)
extract_from_unchecked(s, i) ==
    IF i > Len(Patterns) THEN 0
    ELSE LET m == Search(Patterns[i], s)
         IN  IF m.ok THEN ToInt(s, m.group[1], m.group[2])
             ELSE extract_from_unchecked(s, i + 1)

\* the sanity check with `<` for the upper bound
RECURSIVE extract_from_strict(_, _)
extract_from_strict(s, i) ==
    IF i > Len(Patterns) THEN 0
    ELSE LET m == Search(Patterns[i], s)
             calories == ToInt(s, m.group[1], m.group[2])
         IN  IF m.ok /\ MIN_CALORIE_VALUE <= calories /\ calories < MAX_CALORIE_VALUE
             THEN calories
             ELSE extract_from_strict(s, i + 1)

\* the loop of extract_total_calories from pattern i on
RECURSIVE extract_from(_, _)
extract_from(s, i) ==
    IF i > Len(Patterns) THEN 0
    ELSE LET m == Search(Patterns[i], s)
             calories == ToInt(s, m.group[1], m.group[2])
         IN  IF m.ok /\ MIN_CALORIE_VALUE <= calories /\ calories <= MAX_CALORIE_VALUE
             THEN calories
             ELSE extract_from(s, i + 1)

extract_total_calories(analysis_text) == extract_from(analysis_text, 1)

----------------------------------------------------------------------------
(* Bot orchestrator: app.py.  The analysis texts the vision model may return and
   the text messages a user may send; rows keep the key of their analysis text. *)

AnalysisTexts == <<
    \* '*Total:* 300 kcal | P 20g | C 30g | F 10g'
    <<"*", "T", "o", "t", "a", "l", ":", "*", " ", "3", "0", "0", " ", "k", "c", "a",
      "l", " ", "|", " ", "P", " ", "2", "0", "g", " ", "|", " ", "C", " ", "3", "0",
      "g", " ", "|", " ", "F", " ", "1", "0", "g">>,
    \* 'Total: 150 kcal'
    <<"T", "o", "t", "a", "l", ":", " ", "1", "5", "0", " ", "k", "c", "a", "l">>,
    \* 'Total: 5000 kcal'
    <<"T", "o", "t", "a", "l", ":", " ", "5", "0", "0", "0", " ", "k", "c", "a", "l">>,
    \* 'Looks tasty'
    <<"L", "o", "o", "k", "s", " ", "t", "a", "s", "t", "y">>,
    \* '*Total:* 0 kcal'
    <<"*", "T", "o", "t", "a", "l", ":", "*", " ", "0", " ", "k", "c", "a", "l">>,
    \* ''
    <<>>
    >>

MessageTexts == <<
    \* '/progress'
    <<"/", "p", "r", "o", "g", "r", "e", "s", "s">>,
    \* ' /Progress '
    <<" ", "/", "P", "r", "o", "g", "r", "e", "s", "s", " ">>,
    \* '/resetprogress'
    <<"/", "r", "e", "s", "e", "t", "p", "r", "o", "g", "r", "e", "s", "s">>,
    \* '/RESETPROGRESS'
    <<"/", "R", "E", "S", "E", "T", "P", "R", "O", "G", "R", "E", "S", "S">>,
    \* '\x0b/progress\x1f'
    <<VT, "/", "p", "r", "o", "g", "r", "e", "s", "s", US>>,
    \* 'hello'
    <<"h", "e", "l", "l", "o">>,
    \* ''
    <<>>
    >>

ProgressCommand == <<"/", "p", "r", "o", "g", "r", "e", "s", "s">>
ResetCommand == <<"/", "r", "e", "s", "e", "t", "p", "r", "o", "g", "r", "e", "s", "s">>

DAILY_CALORIE_TARGET == 1350

\* extract_total_calories of each analysis text, by key
ExtractedCalories ==
    [k \in DOMAIN AnalysisTexts |-> extract_total_calories(AnalysisTexts[k])]

\* str.lower()
LowerText(s) == [i \in 1..Len(s) |-> Lower(s[i])]

\* str.strip()
RECURSIVE Strip(_)
Strip(s) ==
    IF s = <<>> THEN s
    ELSE IF IsSpace(Head(s)) THEN Strip(Tail(s))
    ELSE IF IsSpace(s[Len(s)]) THEN Strip(SubSeq(s, 1, Len(s) - 1))
    ELSE s

\* round(n / d) for n >= 0, d > 0: to the nearest integer, a tie to the even one
\* n / d cut to an integer, as int() does, in place of round()
PyRound_truncating(n, d) == n \div d

PyRound(n, d) ==
    LET q == n \div d
        r == n % d
    IN  IF 2 * r < d THEN q
        ELSE IF 2 * r > d THEN q + 1
        ELSE IF q % 2 = 0 THEN q ELSE q + 1

Min(a, b) == IF a <= b THEN a ELSE b
Max(a, b) == IF a >= b THEN a ELSE b

\* app.py store_meal_calories: the same statements as MealCalorie.store
store_meal_calories(l, id, t, u, name, c, a, fail) ==
    LET r == store_try(l, id, t, u, name, c, a, fail)
    IN  IF r.exc THEN Caught(r, FALSE) ELSE r

\* app.py, the start_time get_daily_calories and reset_daily_calories read from the
\* clock before they connect: the start of the 5am window
start_time(t) == app_get_daily_window_timestamps(t)[1]

\* app.py get_daily_calories after it read start_time from the clock
get_daily_calories(l, start, u, fail) ==
    LET r == get_daily_total_try(l, start, u, fail)
    IN  IF r.exc THEN Caught(r, 0) ELSE r

\* app.py reset_daily_calories after it read start_time from the clock
reset_daily_calories(l, start, u, fail) ==
    LET r == reset_daily_total_try(l, start, u, fail)
    IN  IF r.exc THEN Caught(r, FALSE) ELSE r

\* the remaining calories not floored at 0
Progress_unfloored(total_calories, target) ==
    [total_calories |-> total_calories,
     target_calories |-> target,
     percentage |-> IF target > 0
                    THEN Min(100, PyRound(total_calories * 100, target))
                    ELSE 0,
     remaining_calories |-> target - total_calories]

\* The dict calculate_daily_progress builds from the total and the configured
\* target.  (total / target) * 100 is computed in exact arithmetic: with the target
\* 1350 the quotient is a multiple of 1/27, never within 1/54 of a tie, and the
\* double the code computes rounds as the exact quotient.
Progress(total_calories, target) ==
    [total_calories |-> total_calories,
     target_calories |-> target,
     percentage |-> IF target > 0
                    THEN Min(100, PyRound(total_calories * 100, target))
                    ELSE 0,
     remaining_calories |-> Max(0, target - total_calories)]

\* the dict for the target the program is built with
ProgressOf(total_calories) == Progress(total_calories, DAILY_CALORIE_TARGET)

\* app.py calculate_daily_progress after get_daily_calories read start_time
calculate_daily_progress(l, start, u, fail) ==
    ProgressOf(get_daily_calories(l, start, u, fail).ret)

\* what the handling of an update did: the messages sent in order, the calories
\* extracted (with extracted = FALSE when the handler returned before the
\* extraction), the store call ("not called", "calling" while it runs, "stored",
\* "failed") and the progress shown
Handled(sent, calories, stored, progress) ==
    [sent |-> sent,
     extracted |-> calories # <<>>,
     calories |-> IF calories = <<>> THEN 0 ELSE calories[1],
     stored |-> stored, progress |-> progress]

\* `if calories >= 0`
HasCalories_ge(calories) == calories >= 0

\* `if calories > 0` before the store
HasCalories(calories) == calories > 0

\* app.py process_meal_photo for a message with a photo, up to its call of
\* store_meal_calories.  has_caption: the caption is not blank; image: the download
\* succeeded; analysis: the key of the text the vision model returned, 0 when it
\* returned None; channel_success: the channel post succeeded.
process_meal_photo(has_caption, image, analysis, channel_success) ==
    IF ~has_caption
    THEN Handled(<<"caption_missing">>, <<>>, "not called", None)
    ELSE IF ~image
    THEN Handled(<<"analyzing", "download_failed">>, <<>>, "not called", None)
    ELSE IF analysis = 0 \/ AnalysisTexts[analysis] = <<>>
    THEN Handled(<<"analyzing", "analysis_failed">>, <<>>, "not called", None)
    ELSE
    LET calories == ExtractedCalories[analysis]
        shown == <<"analyzing", "analysis_complete">>
    IN  IF ~channel_success
        THEN Handled(shown \o <<"channel_failed">>, <<calories>>, "not called", None)
        ELSE IF ~HasCalories(calories)
        THEN Handled(shown \o <<"channel_post", "posted">>, <<calories>>, "not called", None)
        ELSE Handled(shown \o <<"channel_post", "posted">>, <<calories>>, "calling", None)

\* process_meal_photo when store_meal_calories has returned store_success
photo_stored(h, store_success) ==
    [h EXCEPT !.stored = IF store_success THEN "stored" ELSE "failed"]

\* process_meal_photo after `if store_success`: the progress message
photo_progress(h, progress) ==
    [h EXCEPT !.sent = @ \o <<"progress">>, !.progress = progress]

\* message.get('text', '').strip().lower() of each message text, by key
MessageCommands ==
    [k \in DOMAIN MessageTexts |-> LowerText(Strip(MessageTexts[k]))]

\* app.py webhook, the branch for a message without a photo: the command the text
\* is taken for; text is the key of the message text
handle_text(text) ==
    LET command == MessageCommands[text]
    IN  IF command = ProgressCommand THEN "progress"
        ELSE IF command = ResetCommand THEN "resetprogress"
        ELSE "help"

\* reset_daily_calories from conn.commit() to its return, the DELETE having deleted rows
reset_commit(l, rows, fail) ==
    IF fail = "commit" THEN Caught(Raise(l), FALSE)
    ELSE LET l2 == commit_delete(l, rows)
         IN  IF fail = "close" THEN Caught(RaiseOnClose(l2), FALSE) ELSE Return(l2, TRUE)

----------------------------------------------------------------------------
(* The bot as a state machine (specification SpecBot): webhook updates handled
   while the clock advances across the 5am boundary.  The server handles updates
   concurrently, and a handler opens a connection for each database call, so the
   steps of a handler are its reads of the clock and its database statements: the
   clock advances and the updates of other users and of the same user run between
   them.  A statement sees the rows committed when it starts (READ COMMITTED, the
   default of PostgreSQL). *)

BotStartNow == DateTime(15, 4, 0)

\* the updates the server handles at a time: an update is taken when one of its
\* handlers is free
Handlers == 1..MaxInFlight

\* the steps of a store or a reset at which the database may fail before the
\* statement has run, and from the commit on
StatementFails == {"none", "connect", "execute"}
CommitFails == {"none", "commit", "close"}

\* the handling of an update that has returned; before is the table before its last step
Update(op, u, h, before, t) ==
    [op |-> op, user_id |-> u, sent |-> h.sent, extracted |-> h.extracted,
     calories |-> h.calories,
     stored |-> h.stored, progress |-> h.progress, before |-> before, at |-> t]

InitBot ==
    /\ ledger = {}
    /\ nextId = 1
    /\ now = BotStartNow
    /\ last = NoCall
    /\ input = None
    /\ output = None
    /\ calls = NoCalls

\* webhook with a photo: process_meal_photo up to the INSERT of store_meal_calories,
\* or to its return when nothing is stored or the store fails before the INSERT
WebhookPhoto(r, u, has_caption, image, analysis, channel_success, store_fail) ==
    /\ nextId <= MaxEntriesFailing
    /\ MayStart(r)
    /\ LET h == process_meal_photo(has_caption, image, analysis, channel_success)
       IN  IF h.stored # "calling"
           THEN /\ last' = Update("photo", u, h, ledger, now)
                /\ UNCHANGED <<ledger, nextId, calls>>
           ELSE IF store_fail # "none"
           THEN LET st == store_meal_calories(ledger, nextId, now, u, UserName(u),
                                              h.calories, analysis, store_fail)
                IN  /\ ledger' = st.ledger
                    /\ last' = Update("photo", u, photo_stored(h, st.ret), ledger, now)
                    /\ UNCHANGED <<nextId, calls>>
           ELSE /\ calls' = [calls EXCEPT ![r] =
                               [op |-> "photo", pc |-> "inserted", user_id |-> u,
                                handled |-> h, start |-> 0,
                                row |-> Row(nextId, u, UserName(u), h.calories, analysis,
                                            now)]]
                /\ nextId' = nextId + 1
                /\ last' = NoCall
                /\ UNCHANGED ledger
    /\ UNCHANGED <<now, input, output>>

\* store_meal_calories from conn.commit() to its return, and process_meal_photo up
\* to its call of calculate_daily_progress, or to its return when the store failed
PhotoCommit(r, store_fail) ==
    /\ calls[r].op = "photo"
    /\ calls[r].pc = "inserted"
    /\ LET row == calls[r].row
           st == store_meal_calories(ledger, row.id, row.created_at, row.user_id,
                                     row.user_name, row.calories, row.meal_analysis,
                                     store_fail)
       IN  /\ ledger' = st.ledger
           /\ IF st.ret
              THEN /\ calls' = [calls EXCEPT ![r].pc = "stored",
                                             ![r].handled = photo_stored(@, TRUE)]
                   /\ last' = NoCall
              ELSE /\ calls' = [calls EXCEPT ![r] = Idle]
                   /\ last' = Update("photo", calls[r].user_id,
                                     photo_stored(calls[r].handled, FALSE), ledger, now)
    /\ UNCHANGED <<nextId, now, input, output>>

\* calculate_daily_progress called after a store or a reset that succeeded, up to
\* the read of the clock in get_daily_calories
ReadClock(r) ==
    /\ calls[r].pc \in {"stored", "reset"}
    /\ calls' = [calls EXCEPT ![r].pc = "reading", ![r].start = start_time(now)]
    /\ last' = NoCall
    /\ UNCHANGED <<ledger, nextId, now, input, output>>

\* process_meal_photo from the SELECT of get_daily_calories to the progress message
PhotoProgress(r, read_fail) ==
    /\ calls[r].op = "photo"
    /\ calls[r].pc = "reading"
    /\ last' = Update("photo", calls[r].user_id,
                      photo_progress(calls[r].handled,
                                     calculate_daily_progress(ledger, calls[r].start,
                                                              calls[r].user_id, read_fail)),
                      ledger, now)
    /\ calls' = [calls EXCEPT ![r] = Idle]
    /\ UNCHANGED <<ledger, nextId, now, input, output>>

\* webhook with a text: the help message; /progress and /resetprogress up to the
\* read of the clock in get_daily_calories and in reset_daily_calories
WebhookText(r, u, text) ==
    /\ MayStart(r)
    /\ LET command == handle_text(text)
       IN  IF command = "help"
           THEN /\ last' = Update("text", u, Handled(<<"help">>, <<>>, "not called", None),
                                  ledger, now)
                /\ UNCHANGED calls
           ELSE /\ calls' = [calls EXCEPT ![r] =
                               [op |-> "text", command |-> command,
                                pc |-> IF command = "progress" THEN "reading"
                                       ELSE "connecting",
                                user_id |-> u, start |-> start_time(now), deleted |-> {}]]
                /\ last' = NoCall
    /\ UNCHANGED <<ledger, nextId, now, input, output>>

\* webhook, /progress: from the SELECT of get_daily_calories to the progress message
ProgressReply(r, read_fail) ==
    /\ calls[r].op = "text"
    /\ calls[r].command = "progress"
    /\ calls[r].pc = "reading"
    /\ last' = Update("text", calls[r].user_id,
                      Handled(<<"progress">>, <<>>, "not called",
                              calculate_daily_progress(ledger, calls[r].start,
                                                       calls[r].user_id, read_fail)),
                      ledger, now)
    /\ calls' = [calls EXCEPT ![r] = Idle]
    /\ UNCHANGED <<ledger, nextId, now, input, output>>

\* reset_daily_calories from get_db_connection to its DELETE, which waits when
\* another transaction has deleted one of its rows and not committed, or to the
\* reply when the reset fails before the DELETE
ResetDelete(r, reset_fail) ==
    /\ calls[r].op = "text"
    /\ calls[r].pc = "connecting"
    /\ IF reset_fail # "none"
       THEN LET reset == reset_daily_calories(ledger, calls[r].start, calls[r].user_id,
                                              reset_fail)
            IN  /\ ledger' = reset.ledger
                /\ calls' = [calls EXCEPT ![r] = Idle]
                /\ last' = Update("text", calls[r].user_id,
                                  Handled(<<"reset_failed">>, <<>>, "not called", None),
                                  ledger, now)
       ELSE LET gone == RowsSince(ledger, calls[r].user_id, calls[r].start)
            IN  /\ calls' = [calls EXCEPT
                               ![r].pc = IF gone \cap LockedByOthers(r) = {}
                                         THEN "deleted" ELSE "waiting",
                               ![r].deleted = gone]
                /\ last' = NoCall
                /\ UNCHANGED ledger
    /\ UNCHANGED <<nextId, now, input, output>>

\* the DELETE of reset_daily_calories resumed when the transactions it waited for
\* have committed: the rows they deleted are skipped
ResetResume(r) ==
    /\ calls[r].op = "text"
    /\ calls[r].pc = "waiting"
    /\ calls[r].deleted \cap LockedByOthers(r) = {}
    /\ calls' = [calls EXCEPT ![r].pc = "deleted",
                              ![r].deleted = calls[r].deleted \cap ledger]
    /\ last' = NoCall
    /\ UNCHANGED <<ledger, nextId, now, input, output>>

\* reset_daily_calories from conn.commit() to its return, and the webhook up to its
\* call of calculate_daily_progress, or to the reply when the reset failed
ResetCommit(r, reset_fail) ==
    /\ calls[r].op = "text"
    /\ calls[r].pc = "deleted"
    /\ LET reset == reset_commit(ledger, calls[r].deleted, reset_fail)
       IN  /\ ledger' = reset.ledger
           /\ IF reset.ret
              THEN /\ calls' = [calls EXCEPT ![r].pc = "reset", ![r].deleted = {}]
                   /\ last' = NoCall
              ELSE /\ calls' = [calls EXCEPT ![r] = Idle]
                   /\ last' = Update("text", calls[r].user_id,
                                     Handled(<<"reset_failed">>, <<>>, "not called", None),
                                     ledger, now)
    /\ UNCHANGED <<nextId, now, input, output>>

\* webhook, /resetprogress after a successful reset: from the SELECT of
\* get_daily_calories to the reply that shows the progress
ResetReply(r, read_fail) ==
    /\ calls[r].op = "text"
    /\ calls[r].command = "resetprogress"
    /\ calls[r].pc = "reading"
    /\ last' = Update("text", calls[r].user_id,
                      Handled(<<"reset_progress">>, <<>>, "not called",
                              calculate_daily_progress(ledger, calls[r].start,
                                                       calls[r].user_id, read_fail)),
                      ledger, now)
    /\ calls' = [calls EXCEPT ![r] = Idle]
    /\ UNCHANGED <<ledger, nextId, now, input, output>>

TickBot ==
    /\ now < BotStartNow + MaxTicks * TickMinutes
    /\ now' = now + TickMinutes
    /\ last' = NoCall
    /\ UNCHANGED <<ledger, nextId, input, output, calls>>

\* The inputs of a photo update.  An input the handler does not consult on the path
\* taken is fixed (TRUE, 0, "none"), so that no path is enumerated twice.
PhotoInputs ==
    {i \in [has_caption : BOOLEAN, image : BOOLEAN, analysis : 0..Len(AnalysisTexts),
            channel_success : BOOLEAN, store_fail : StatementFails] :
        /\ ~i.has_caption => i.image
        /\ ~(i.has_caption /\ i.image) => i.analysis = 0
        /\ (i.analysis = 0 \/ AnalysisTexts[i.analysis] = <<>>) => i.channel_success
        /\ process_meal_photo(i.has_caption, i.image, i.analysis,
                              i.channel_success).stored # "calling"
              => i.store_fail = "none"}

NextBot ==
    \/ \E r \in Handlers, u \in Users, i \in PhotoInputs :
            WebhookPhoto(r, u, i.has_caption, i.image, i.analysis, i.channel_success,
                         i.store_fail)
    \/ \E r \in Handlers, fail \in CommitFails : PhotoCommit(r, fail)
    \/ \E r \in Handlers : ReadClock(r)
    \/ \E r \in Handlers, fail \in ReadFails : PhotoProgress(r, fail)
    \/ \E r \in Handlers, u \in Users, text \in DOMAIN MessageTexts : WebhookText(r, u, text)
    \/ \E r \in Handlers, fail \in ReadFails : ProgressReply(r, fail)
    \/ \E r \in Handlers, fail \in StatementFails : ResetDelete(r, fail)
    \/ \E r \in Handlers : ResetResume(r)
    \/ \E r \in Handlers, fail \in CommitFails : ResetCommit(r, fail)
    \/ \E r \in Handlers, fail \in ReadFails : ResetReply(r, fail)
    \/ TickBot

SpecBot == InitBot /\ [][NextBot]_vars

\* C9: every row the message handling persists has calories in 1..3000, the value
\* extracted from its analysis text; a meal whose analysis yields 0 is not stored.
C9_StoredCaloriesArePositive ==
    /\ \A e \in ledger :
          /\ e.calories \in 1..3000
          /\ e.calories = ExtractedCalories[e.meal_analysis]
    /\ (last.op = "photo" /\ last.extracted /\ last.calories = 0) =>
          /\ last.stored = "not called"
          /\ ledger = last.before

\* a photo whose analysis yields 0 was posted to the channel and nothing was stored
C9_Witness ==
    /\ last.op = "photo"
    /\ last.extracted
    /\ last.calories = 0
    /\ last.sent = <<"analyzing", "analysis_complete", "channel_post", "posted">>
    /\ ledger = last.before
    /\ ledger # {}

\* message m is among the messages sent
Sent(m) == \E i \in 1..Len(last.sent) : last.sent[i] = m

\* message a was sent, and sent before message b
SentBefore(a, b) ==
    \E i, j \in 1..Len(last.sent) : i < j /\ last.sent[i] = a /\ last.sent[j] = b

\* C21: when /resetprogress succeeds, the progress shown in the reply has
\* total_calories 0, percentage 0 and remaining_calories equal to the target, in
\* every interleaving with other requests of the same user.
C21_ResetReplyShowsZero ==
    (last.op = "text" /\ last.sent = <<"reset_progress">>) =>
        /\ last.progress.total_calories = 0
        /\ last.progress.percentage = 0
        /\ last.progress.remaining_calories = 1350

\* C22: in the photo flow a store is attempted only after the analysis succeeded, the
\* channel post succeeded and the calories extracted are > 0, and the progress
\* message is sent only after that store returned true; when the download, the
\* analysis or the channel post fails, or the extraction yields 0, or the store
\* fails, the ledger is left unchanged and no progress message is sent.
C22_PhotoFlowIsOrdered ==
    last.op = "photo" =>
        /\ (last.stored # "not called" =>
               /\ SentBefore("analysis_complete", "channel_post")
               /\ Sent("posted")
               /\ last.extracted /\ last.calories > 0)
        /\ (Sent("progress") =>
               /\ last.stored = "stored"
               /\ last.sent[Len(last.sent)] = "progress"
               /\ SentBefore("posted", "progress"))
        /\ ((\/ Sent("download_failed") \/ Sent("analysis_failed") \/ Sent("channel_failed")
             \/ (last.extracted /\ last.calories = 0)
             \/ last.stored = "failed") =>
               /\ ledger = last.before
               /\ ~Sent("progress"))

----------------------------------------------------------------------------
(* The progress snapshot evaluated on its own (specification SpecProgress): every
   total up to MaxTotal, with the target of the configuration *)

\* the greatest daily total a snapshot is computed for
MaxTotal == 1600

\* config.DAILY_CALORIE_TARGET: a constant of the class Config, read from no
\* environment variable
ProgressTargets == {DAILY_CALORIE_TARGET}

InitProgress ==
    /\ ledger = {}
    /\ nextId = 1
    /\ now = StartNow
    /\ last = NoCall
    /\ input \in [total : 0..MaxTotal, target : ProgressTargets]
    /\ output = None
    /\ calls = NoCalls

ComputeProgress ==
    /\ output = None
    /\ output' = Progress(input.total, input.target)
    /\ UNCHANGED <<ledger, nextId, now, last, input, calls>>

NextProgress == ComputeProgress

SpecProgress == InitProgress /\ [][NextProgress]_vars

\* C12: the percentage is min(100, total * 100 / target rounded to the nearest
\* integer, a tie rounded up) when target > 0 and 0 when target <= 0; total 950 with
\* target 1350 gives 70 and total 1500 with target 1350 gives 100.  The target of
\* every snapshot is config.DAILY_CALORIE_TARGET, 1350, with which no total gives a tie.
C12_PercentageRoundsHalfUp ==
    output # None =>
        /\ (input.target > 0 =>
              \/ /\ output.percentage = 100
                 /\ 200 * input.total + input.target >= 200 * input.target
              \/ /\ output.percentage < 100
                 /\ 2 * output.percentage * input.target <= 200 * input.total + input.target
                 /\ 200 * input.total + input.target
                        < 2 * (output.percentage + 1) * input.target)
        /\ (input.target <= 0 => output.percentage = 0)
        /\ (input = [total |-> 950, target |-> 1350] => output.percentage = 70)
        /\ (input = [total |-> 1500, target |-> 1350] => output.percentage = 100)

\* a total of 7 with the target 1350, 0.52 %, was rounded up to 1
C12_Witness ==
    /\ output # None
    /\ input = [total |-> 7, target |-> DAILY_CALORIE_TARGET]
    /\ output.percentage = 1

----------------------------------------------------------------------------
(* The progress service over the ledger (specification SpecService):
   services/progress_service.py called between stores while the clock advances *)

\* (calories, meal_analysis) pairs stored here: two meals that together exceed the target
ServiceMeals == {<<950, 1>>, <<550, 2>>}

\* ProgressService.calculate_daily_progress
ProgressService_calculate_daily_progress(l, t, u, fail) ==
    ProgressOf(get_daily_total(l, t, u, fail).ret)

\* ProgressService.reset_progress
ProgressService_reset_progress(l, t, u, fail) == reset_daily_total(l, t, u, fail)

CalculateDailyProgress(u, fail) ==
    /\ last' = [op |-> "calculate_daily_progress", user_id |-> u, fail |-> fail,
                ret |-> ProgressService_calculate_daily_progress(ledger, now, u, fail),
                before |-> ledger, at |-> now]
    /\ UNCHANGED <<ledger, nextId, now, input, output, calls>>

ResetProgress(u, fail) ==
    /\ LET r == ProgressService_reset_progress(ledger, now, u, fail)
       IN  /\ ledger' = r.ledger
           /\ last' = Call("reset_progress", u, fail, r, ledger, now)
    /\ UNCHANGED <<nextId, now, input, output, calls>>

NextService ==
    \/ \E u \in Users, meal \in ServiceMeals : nextId <= MaxEntries /\ Store(u, meal, "none")
    \/ \E u \in Users, fail \in ReadFails : CalculateDailyProgress(u, fail)
    \/ \E u \in Users : ResetProgress(u, "none")
    \/ Tick

SpecService == Init /\ [][NextService]_vars

\* C13: in every reachable ledger state the snapshot has remaining_calories =
\* max(0, target - total_calories), so 0 <= remaining_calories <= target and
\* 0 <= percentage <= 100, also when the user's total exceeds the target.
C13_SnapshotIsInRange ==
    last.op = "calculate_daily_progress" =>
        /\ last.ret.target_calories = 1350
        /\ (last.fail = "none" =>
               last.ret.total_calories = Total(InWindow(ledger, last.user_id, now)))
        /\ (last.ret.total_calories <= 1350 =>
               last.ret.remaining_calories = 1350 - last.ret.total_calories)
        /\ (last.ret.total_calories > 1350 =>
               last.ret.remaining_calories = 0 /\ last.ret.percentage = 100)
        /\ last.ret.remaining_calories \in 0..1350
        /\ last.ret.percentage \in 0..100

\* a snapshot was taken of a user whose window holds 950 + 550 = 1500 kcal
C13_Witness ==
    /\ last.op = "calculate_daily_progress"
    /\ last.fail = "none"
    /\ last.ret.total_calories = 1500
    /\ last.ret.remaining_calories = 0
    /\ last.ret.percentage = 100

----------------------------------------------------------------------------
(* The progress bar evaluated on its own (specification SpecBar): every percentage
   0..100 and every length up to MaxBarLength *)

\* the greatest bar length rendered
MaxBarLength == 20

\* the characters of a filled and an empty cell ('\u2588' and '\u2591' in the source)
FilledCell == "#"
EmptyCell == "."

\* c * n for a one-character string c: empty when n <= 0
Repeat(c, n) == [i \in 1..n |-> c]

\* ProgressService.create_progress_bar with the length given (the default is 20)
create_progress_bar(percentage, length) ==
    LET filled_length == PyRound(length * percentage, 100)
        bar == Repeat(FilledCell, filled_length) \o Repeat(EmptyCell, length - filled_length)
    IN  <<"[">> \o bar \o <<"]">>

InitBar ==
    /\ ledger = {}
    /\ nextId = 1
    /\ now = StartNow
    /\ last = NoCall
    /\ input \in [percentage : 0..100, length : 0..MaxBarLength]
    /\ output = None
    /\ calls = NoCalls

CreateProgressBar ==
    /\ output = None
    /\ output' = create_progress_bar(input.percentage, input.length)
    /\ UNCHANGED <<ledger, nextId, now, last, input, calls>>

NextBar == CreateProgressBar

SpecBar == InitBar /\ [][NextBar]_vars

\* C14: for every percentage in 0..100 and every length the bar has exactly `length`
\* cells between its brackets, the first round(length * percentage / 100) of them
\* filled (a tie rounded up) and all the others empty; percentage 70 with length 20
\* gives 14 filled cells followed by 6 empty ones.
C14_BarRoundsHalfUp ==
    output # None =>
        /\ Len(output) = input.length + 2
        /\ output[1] = "[" /\ output[Len(output)] = "]"
        /\ \E filled \in 0..input.length :
              /\ 100 * filled <= input.length * input.percentage + 50
              /\ input.length * input.percentage + 50 < 100 * (filled + 1)
              /\ \A i \in 1..input.length :
                    output[i + 1] = IF i <= filled THEN "#" ELSE "."
        /\ (input = [percentage |-> 70, length |-> 20] =>
               output = <<"[">> \o [i \in 1..14 |-> "#"] \o [i \in 1..6 |-> "."] \o <<"]">>)

----------------------------------------------------------------------------
(* The calorie extractor evaluated on its own (specification SpecExtract).  An
   analysis text is given as its lines; a line is a kind of text and the calorie
   figure c written in it in decimal.  The bullet of the item lines is written "-". *)

\* the greatest calorie figure written in a text
MaxFigure == 3001

LineParts == [
    \* '*Total*: {c} kcal'
    total_star |->
      [before |-> <<"*", "T", "o", "t", "a", "l", "*", ":", " ">>,
       figure |-> TRUE,
       after |-> <<" ", "k", "c", "a", "l">>],
    \* 'Total: {c} kcal'
    total_plain |->
      [before |-> <<"T", "o", "t", "a", "l", ":", " ">>,
       figure |-> TRUE,
       after |-> <<" ", "k", "c", "a", "l">>],
    \* '*Total:* {c} kcal | P 49g | C 45g | F 5.5g'
    total_md |->
      [before |-> <<"*", "T", "o", "t", "a", "l", ":", "*", " ">>,
       figure |-> TRUE,
       after |-> <<" ", "k", "c", "a", "l", " ", "|", " ", "P", " ", "4", "9", "g",
                 " ", "|", " ", "C", " ", "4", "5", "g", " ", "|", " ",
                 "F", " ", "5", ".", "5", "g">>],
    \* '{c} kcal in total'
    in_total |->
      [before |-> <<>>,
       figure |-> TRUE,
       after |-> <<" ", "k", "c", "a", "l", " ", "i", "n", " ", "t", "o", "t", "a", "l">>],
    \* '- Rice: {c} kcal | P 4g | C 37g | F 5g'
    item |->
      [before |-> <<"-", " ", "R", "i", "c", "e", ":", " ">>,
       figure |-> TRUE,
       after |-> <<" ", "k", "c", "a", "l", " ", "|", " ", "P", " ", "4", "g", " ",
                 "|", " ", "C", " ", "3", "7", "g", " ", "|", " ", "F",
                 " ", "5", "g">>],
    \* 'Total: {c} cal'
    cal |->
      [before |-> <<"T", "o", "t", "a", "l", ":", " ">>,
       figure |-> TRUE,
       after |-> <<" ", "c", "a", "l">>],
    \* 'Total: {c}'
    no_unit |->
      [before |-> <<"T", "o", "t", "a", "l", ":", " ">>,
       figure |-> TRUE,
       after |-> <<>>],
    \* 'Looks tasty'
    text |->
      [before |-> <<"L", "o", "o", "k", "s", " ", "t", "a", "s", "t", "y">>,
       figure |-> FALSE,
       after |-> <<>>],
    \* the lines of sample_meal_analysis
    meal |->
      [before |-> <<"*", "M", "e", "a", "l", ":", "*", " ", "G", "r", "i", "l", "l",
                 "e", "d", " ", "c", "h", "i", "c", "k", "e", "n", " ",
                 "w", "i", "t", "h", " ", "r", "i", "c", "e", " ", "a",
                 "n", "d", " ", "v", "e", "g", "e", "t", "a", "b", "l",
                 "e", "s">>,
       figure |-> FALSE,
       after |-> <<>>],
    breakdown |->
      [before |-> <<"*", "B", "r", "e", "a", "k", "d", "o", "w", "n", ":", "*">>,
       figure |-> FALSE,
       after |-> <<>>],
    item1 |->
      [before |-> <<"-", " ", "G", "r", "i", "l", "l", "e", "d", " ", "c", "h", "i",
                 "c", "k", "e", "n", " ", "b", "r", "e", "a", "s", "t",
                 ":", " ", "2", "3", "0", " ", "k", "c", "a", "l", " ",
                 "|", " ", "P", " ", "4", "3", "g", " ", "|", " ", "C",
                 " ", "0", "g", " ", "|", " ", "F", " ", "5", "g">>,
       figure |-> FALSE,
       after |-> <<>>],
    item2 |->
      [before |-> <<"-", " ", "S", "t", "e", "a", "m", "e", "d", " ", "w", "h", "i",
                 "t", "e", " ", "r", "i", "c", "e", ":", " ", "1", "8",
                 "0", " ", "k", "c", "a", "l", " ", "|", " ", "P", " ",
                 "4", "g", " ", "|", " ", "C", " ", "3", "7", "g", " ",
                 "|", " ", "F", " ", "0", ".", "5", "g">>,
       figure |-> FALSE,
       after |-> <<>>],
    item3 |->
      [before |-> <<"-", " ", "M", "i", "x", "e", "d", " ", "v", "e", "g", "e", "t",
                 "a", "b", "l", "e", "s", ":", " ", "4", "0", " ", "k",
                 "c", "a", "l", " ", "|", " ", "P", " ", "2", "g", " ",
                 "|", " ", "C", " ", "8", "g", " ", "|", " ", "F", " ",
                 "0", "g">>,
       figure |-> FALSE,
       after |-> <<>>],
    blank |->
      [before |-> <<>>,
       figure |-> FALSE,
       after |-> <<>>]
    ]

\* str(n) for n >= 0
RECURSIVE Decimal(_)
Decimal(n) ==
    IF n < 10 THEN <<DigitChars[n + 1]>>
    ELSE Decimal(n \div 10) \o <<DigitChars[(n % 10) + 1]>>

Line(kind, c) == [kind |-> kind, c |-> c]

\* the characters of one line
LineText(line) ==
    LET p == LineParts[line.kind]
    IN  p.before \o (IF p.figure THEN Decimal(line.c) ELSE <<>>) \o p.after

\* the lines joined by newlines
RECURSIVE TextOf(_)
TextOf(lines) ==
    IF lines = <<>> THEN <<>>
    ELSE IF Len(lines) = 1 THEN LineText(lines[1])
    ELSE LineText(lines[1]) \o <<"\n">> \o TextOf(Tail(lines))

\* sample_meal_analysis with the figure c on its total line
SampleAnalysis(c) ==
    <<Line("blank", 0), Line("meal", 0), Line("breakdown", 0), Line("item1", 0),
      Line("item2", 0), Line("item3", 0), Line("total_md", c), Line("blank", 0)>>

\* the figures written in the texts of one or two lines
Figures == {0, 450, MAX_CALORIE_VALUE, MaxFigure, 5000}

\* the lines such a text is made of
Lines ==
    {Line(k, c) : k \in {"total_star", "total_plain", "total_md", "in_total", "item",
                         "cal", "no_unit"},
                  c \in Figures}
        \cup {Line("text", 0)}

\* the texts extract_total_calories is called with: the total line of the analysis
\* format and the sample analysis with every figure, and every text of one or two
\* of the lines above
ExtractInputs ==
    {<<Line("total_md", c)>> : c \in 0..MaxFigure}
        \cup {SampleAnalysis(c) : c \in 0..MaxFigure}
        \cup {<<a>> : a \in Lines}
        \cup {<<a, b>> : a \in Lines, b \in Lines}

InitExtract ==
    /\ ledger = {}
    /\ nextId = 1
    /\ now = StartNow
    /\ last = NoCall
    /\ input \in ExtractInputs
    /\ output = None
    /\ calls = NoCalls

Extract ==
    /\ output = None
    /\ output' = [ret |-> extract_total_calories(TextOf(input))]
    /\ UNCHANGED <<ledger, nextId, now, last, input, calls>>

NextExtract == Extract

SpecExtract == InitExtract /\ [][NextExtract]_vars

\* the kinds of line that mention a total
TotalKinds == {"total_star", "total_plain", "total_md", "in_total", "cal", "no_unit"}

\* the positions of the lines of the input that mention a total
TotalLines == {i \in 1..Len(input) : input[i].kind \in TotalKinds}

\* C15: for every c in 0..3000, a text whose total line is
\* "*Total:* {c} kcal | P Xg | C Yg | F Zg" yields exactly c; the sample analysis,
\* three item lines followed by "*Total:* 450 kcal | P 49g | C 45g | F 5.5g", yields 450.
C15_TotalLineYieldsItsFigure ==
    output # None =>
        /\ \A i \in TotalLines :
              (TotalLines = {i} /\ input[i].kind = "total_md" /\ input[i].c \in 0..3000)
                  => output.ret = input[i].c
        /\ (input = SampleAnalysis(450) => output.ret = 450)

\* the sample analysis with the figure 3000 on its total line yielded 3000
C15_Witness ==
    /\ output # None
    /\ output.ret = 3000
    /\ Len(input) = 8
    /\ input[4].kind = "item1"
    /\ input[7] = Line("total_md", 3000)

\* the kinds of line in which "kcal" is written
KcalKinds ==
    {"total_star", "total_plain", "total_md", "in_total", "item", "item1", "item2", "item3"}

\* the number of kcal written on line i of the input
FigureOf(i) ==
    CASE input[i].kind = "item1" -> 230
      [] input[i].kind = "item2" -> 180
      [] input[i].kind = "item3" -> 40
      [] OTHER -> input[i].c

\* the positions of the lines of the input on which a number of kcal is written
KcalLines == {i \in 1..Len(input) : input[i].kind \in KcalKinds}

\* C16: extract returns 0 for every text without a "kcal" token, and 0 for every text
\* in which the numbers of kcal that can be matched as the calorie figure are all
\* outside 0..3000 (for instance a total of 5000 kcal).
C16_NoFigureYieldsZero ==
    output # None =>
        /\ (KcalLines = {} => output.ret = 0)
        /\ ((KcalLines # {} /\ \A i \in KcalLines : FigureOf(i) \notin 0..3000)
               => output.ret = 0)

\* an item of 3001 kcal followed by a total of 5000 kcal yielded 0
C16_Witness ==
    /\ output # None
    /\ input = <<Line("item", MaxFigure), Line("total_md", 5000)>>
    /\ output.ret = 0

\* The kinds of line each pattern, in priority order, matches within the line.
PatternKinds == <<
    {"total_star"},
    {"total_plain"},
    {"total_star", "total_plain", "total_md"},
    {"in_total"},
    {"total_star", "total_plain", "total_md"},
    {"item", "item1", "item3"}
    >>

\* The figure pattern p captures when its match starts on line i, -1 when it has no
\* match starting there.  The second pattern also matches from a "total" that ends
\* a line to a figure and "kcal" that start the next one.
CaptureAt(p, i) ==
    IF input[i].kind \in PatternKinds[p] THEN FigureOf(i)
    ELSE IF /\ p = 2
            /\ i < Len(input)
            /\ input[i].kind = "in_total"
            /\ input[i + 1].kind = "in_total"
         THEN FigureOf(i + 1)
    ELSE 0 - 1

\* the figure of the leftmost match of pattern p, -1 when it matches nowhere
CaptureOf(p) ==
    LET at == {i \in 1..Len(input) : CaptureAt(p, i) >= 0}
    IN  IF at = {} THEN 0 - 1
        ELSE CaptureAt(p, CHOOSE i \in at : \A j \in at : i <= j)

\* C17: the six patterns are tried in their priority order, a pattern whose match is
\* outside 0..3000 is skipped, and the result is the figure of the first pattern
\* that yields one in 0..3000, 0 when none does; the result is always in 0..3000.
C17_FirstPatternInBoundsWins ==
    output # None =>
        /\ output.ret \in 0..3000
        /\ LET yielding == {p \in 1..6 : CaptureOf(p) \in 0..3000}
           IN  IF yielding = {} THEN output.ret = 0
               ELSE output.ret = CaptureOf(CHOOSE p \in yielding : \A q \in yielding : p <= q)

\* the second pattern gave the result although the fourth matches earlier in the text
C17_Witness ==
    /\ output # None
    /\ input = <<Line("in_total", 450), Line("total_plain", 3000)>>
    /\ output.ret = 3000

\* the patterns matching an out-of-range total were skipped and the sixth gave the result
C17_WitnessSkipped ==
    /\ output # None
    /\ input = <<Line("total_plain", 5000), Line("item", 450)>>
    /\ output.ret = 450

----------------------------------------------------------------------------
(* Concurrent requests (specification SpecConcurrent).  Each request opens its own
   connection; a transaction starts at its first statement and its writes become
   visible to the others at conn.commit().  Under PostgreSQL's default isolation
   level, READ COMMITTED, every statement sees the rows committed before the
   statement itself begins.  created_at is NOW(), the start of the inserting
   transaction.  A request runs one call; requests start in the order of their
   numbers.  A DELETE locks the rows it deletes until its transaction commits:
   another DELETE of one of them waits, and then skips the rows that are gone. *)

\* a row stored before the concurrent requests start
PriorRow == Row(1, 1, UserName(1), 300, 1, DateTime(15, 20, 0))

ConcurrentStartNow == DateTime(15, 20, 0)

\* conn.commit() of a transaction that inserted `row`, the others' rows overwritten
commit_insert_last_wins(l, row) == {e \in l : e.user_id # row.user_id} \cup {row}

\* conn.commit() of a transaction that inserted `row`
commit_insert(l, row) == l \cup {row}

InitConcurrent ==
    /\ ledger = {PriorRow}
    /\ nextId = 2
    /\ now = ConcurrentStartNow
    /\ last = NoCall
    /\ input = None
    /\ output = None
    /\ calls = NoCalls

\* MealCalorie.store up to cur.execute: the INSERT takes the next id and the time
StoreExecute(r, u, meal) ==
    /\ MayStart(r)
    /\ calls' = [calls EXCEPT ![r] =
                    [op |-> "store", pc |-> "inserted", user_id |-> u,
                     row |-> Row(nextId, u, UserName(u), meal[1], meal[2], now),
                     ret |-> FALSE]]
    /\ nextId' = nextId + 1
    /\ UNCHANGED <<ledger, now, last, input, output>>

\* MealCalorie.store from conn.commit() to the return
StoreCommit(r) ==
    /\ calls[r].op = "store"
    /\ calls[r].pc = "inserted"
    /\ ledger' = commit_insert(ledger, calls[r].row)
    /\ calls' = [calls EXCEPT ![r].pc = "done", ![r].ret = TRUE]
    /\ UNCHANGED <<nextId, now, last, input, output>>

\* MealCalorie.delete_last_meal up to the fetchone of its SELECT
DeleteSelect(r, u) ==
    /\ MayStart(r)
    /\ \E picked \in Pickable(ledger, u) :
          calls' = [calls EXCEPT ![r] =
                      [op |-> "delete_last_meal",
                       pc |-> IF picked = None THEN "done" ELSE "selected",
                       user_id |-> u, picked |-> picked, deleted |-> {},
                       ret |-> <<FALSE, None>>]]
    /\ UNCHANGED <<ledger, nextId, now, last, input, output>>

\* MealCalorie.delete_last_meal, the DELETE statement: it finds its rows among the
\* rows committed when it starts; when another transaction has deleted one of them
\* and not committed, the statement waits for that transaction
DeleteExecute(r) ==
    /\ calls[r].op = "delete_last_meal"
    /\ calls[r].pc = "selected"
    /\ LET gone == DeletedByLast(ledger, calls[r].user_id)
       IN  calls' = [calls EXCEPT
                       ![r].pc = IF gone \cap LockedByOthers(r) = {}
                                 THEN "deleted" ELSE "waiting",
                       ![r].deleted = gone]
    /\ UNCHANGED <<ledger, nextId, now, last, input, output>>

\* the DELETE statement resumed when the transactions it waited for have committed:
\* the rows they deleted are skipped
DeleteResume(r) ==
    /\ calls[r].op = "delete_last_meal"
    /\ calls[r].pc = "waiting"
    /\ calls[r].deleted \cap LockedByOthers(r) = {}
    /\ calls' = [calls EXCEPT ![r].pc = "deleted",
                              ![r].deleted = calls[r].deleted \cap ledger]
    /\ UNCHANGED <<ledger, nextId, now, last, input, output>>

\* MealCalorie.delete_last_meal from conn.commit() to the return
DeleteCommit(r) ==
    /\ calls[r].op = "delete_last_meal"
    /\ calls[r].pc = "deleted"
    /\ ledger' = commit_delete(ledger, calls[r].deleted)
    /\ calls' = [calls EXCEPT
                   ![r].pc = "done",
                   ![r].ret = IF Cardinality(calls[r].deleted) > 0
                              THEN <<TRUE, MealInfo(calls[r].picked)>>
                              ELSE <<FALSE, None>>]
    /\ UNCHANGED <<nextId, now, last, input, output>>

\* get_daily_total up to its read of the clock (get_daily_window_timestamps)
ReadWindow(r, u) ==
    /\ MayStart(r)
    /\ calls' = [calls EXCEPT ![r] =
                    [op |-> "get_daily_total", pc |-> "window", user_id |-> u,
                     start |-> get_daily_window_timestamps(now)[1], ret |-> 0, at |-> now]]
    /\ UNCHANGED <<ledger, nextId, now, last, input, output>>

\* get_daily_total from get_db_connection to its return: the SELECT sees the rows
\* committed when it starts and compares them with the start_time read before
ReadDailyTotal(r) ==
    /\ calls[r].op = "get_daily_total"
    /\ calls[r].pc = "window"
    /\ calls' = [calls EXCEPT
                    ![r].pc = "done",
                    ![r].ret = get_daily_total_since(ledger, calls[r].start,
                                                     calls[r].user_id, "none").ret,
                    ![r].at = now]
    /\ UNCHANGED <<ledger, nextId, now, last, input, output>>

TickConcurrent ==
    /\ now < ConcurrentStartNow + MaxTicks * TickMinutes
    /\ now' = now + TickMinutes
    /\ UNCHANGED <<ledger, nextId, last, input, output, calls>>

NextConcurrent ==
    \/ \E r \in Requests, meal \in Meals : StoreExecute(r, 1, meal)
    \/ \E r \in Requests : StoreCommit(r)
    \/ \E r \in Requests : DeleteSelect(r, 1)
    \/ \E r \in Requests : DeleteExecute(r)
    \/ \E r \in Requests : DeleteResume(r)
    \/ \E r \in Requests : DeleteCommit(r)
    \/ \E r \in Requests : ReadWindow(r, 1)
    \/ \E r \in Requests : ReadDailyTotal(r)
    \/ TickConcurrent

SpecConcurrent == InitConcurrent /\ [][NextConcurrent]_vars

\* C19: in every interleaving of deleteLast(u) with concurrent stores of u, the
\* snapshot deleteLast returns is of a row it removed, and it removes no row newer
\* than the one it reports.
C19_DeleteLastReportsWhatItRemoved ==
    \A r \in Requests :
        (calls[r].op = "delete_last_meal" /\ calls[r].pc = "done" /\ calls[r].ret[1]) =>
            /\ calls[r].picked \in calls[r].deleted
            /\ \A e \in calls[r].deleted : e.created_at <= calls[r].picked.created_at

\* the calories of the stores begun by requests 1..n
RECURSIVE StoredCalories(_)
StoredCalories(n) ==
    IF n = 0 THEN 0
    ELSE (IF calls[n].op = "store" THEN calls[n].row.calories ELSE 0)
            + StoredCalories(n - 1)

\* only stores and reads have been called, all within the window of the start
OnlyStoresInOneWindow ==
    /\ \A r \in Requests : calls[r].op # "delete_last_meal"
    /\ WindowStartOf(now) = WindowStartOf(ConcurrentStartNow)

\* C20: when concurrent stores of one user all return true within one window, with
\* no reset or deleteLast, then once all have returned dailyTotal(u) is the total
\* before them plus the sum of their calories, and every dailyTotal read during the
\* interleaving is between the previous total and that final total.
C20_NoLostUpdates ==
    OnlyStoresInOneWindow =>
        /\ (\A r \in Requests : calls[r].op = "store" => calls[r].pc = "done" /\ calls[r].ret)
              => get_daily_total(ledger, now, 1, "none").ret
                    = PriorRow.calories + StoredCalories(MaxRequests)
        /\ \A r \in Requests :
              calls[r].op = "get_daily_total" /\ calls[r].pc = "done" =>
                  /\ PriorRow.calories <= calls[r].ret
                  /\ calls[r].ret <= PriorRow.calories + StoredCalories(MaxRequests)

\* two stores overlapped, a read between their commits returned the total with one
\* of them, and both have returned
C20_Witness ==
    /\ OnlyStoresInOneWindow
    /\ calls[1].op = "store" /\ calls[1].pc = "done"
    /\ calls[2].op = "store" /\ calls[2].pc = "done"
    /\ calls[3].op = "get_daily_total" /\ calls[3].pc = "done"
    /\ calls[3].ret = PriorRow.calories + calls[2].row.calories
    /\ get_daily_total(ledger, now, 1, "none").ret = 300 + 300 + 150

====
